---- MODULE Spec2Model ----
(***************************************************************************)
(* Model of src/script.js: the behaviour layer of a static portfolio page. *)
(* Seven controllers are constructed by the DOMContentLoaded handler and   *)
(* afterwards react to browser events (click, scroll, submit, fetch        *)
(* settlement, timers).  Every handler runs to completion, so every        *)
(* handler is one action.  The controllers share no state, so besides the  *)
(* full specification Spec there is one specification per controller       *)
(* (SpecTheme, SpecNav, SpecForm) that explores that controller's events   *)
(* after the page-ready handler, and SpecLoad, which explores the          *)
(* page-ready handler over every subset of missing document elements.      *)
(***************************************************************************)
EXTENDS Integers, Sequences, FiniteSets, TLC

VARIABLES
  \* ---- document and platform (fixed once the page is served)
  present,          \* the expected elements the document contains
  nativeSmooth,     \* "scrollBehavior" in document.documentElement.style
  nativeLazy,       \* "loading" in HTMLImageElement.prototype
  \* ---- page-ready handler
  page,             \* "loading" | "ready" | "error" (the handler threw)
  constructed,      \* controllers whose constructor returned, in order
  listeners,        \* event listeners attached so far
  loads,            \* history: number of times the page-ready handler ran
  \* ---- ThemeManager
  stored,           \* localStorage["theme"]: "none" (absent) | "light" | "dark"
  osDark,           \* matchMedia("(prefers-color-scheme: dark)").matches
  theme,            \* this.theme
  dataTheme,        \* documentElement[data-theme]
  ariaPressed,      \* themeToggle[aria-pressed]
  userChoice,       \* history: the theme the last toggle click set
  \* ---- NavigationManager
  layout,           \* section id -> [top, height] of the sections that exist
  scrollY,          \* window.scrollY
  active,           \* indices of the nav links carrying class "active"
  ariaExpanded,     \* mobileToggle[aria-expanded]
  mobileOpen,       \* navMenu has class "mobile-open"
  headerScrolled,   \* header has class "scrolled"
  \* ---- SkillAnimator / SectionAnimator
  skillObserved,    \* the skills section is observed
  hasAnimated,      \* this.hasAnimated
  sectionObserved,  \* the sections the SectionAnimator observes
  skillTimers,      \* pending setTimeout callbacks of animateSkills: bars
  barFills,         \* history: bar -> times its --skill-width was set
  skillAnimations,  \* history: number of animateSkills calls
  skillSeen,        \* history: the skills section was reported intersecting
  sectionStyle,     \* section -> its style.animation
  sectionAssigned,  \* history: section -> times style.animation was assigned
  sectionSeen,      \* history: the sections reported intersecting
  \* ---- FormHandler
  fields,           \* the values of the form's four fields
  statusText,       \* formStatus.textContent
  statusClass,      \* formStatus.className
  timers,           \* pending setTimeout callbacks of showStatus: due times
  now,              \* the clock, in ms
  inflight,         \* fetch requests not yet settled
  issued,           \* history: number of fetch calls made
  validSubmits,     \* history: number of submits that passed validateForm
  submits,          \* history: number of submit events handled
  shownAt,          \* history: the time of the last showStatus, -1 if none
  latestOutcome,    \* history: how the most recently issued fetch settled
  \* ---- history of the last handled event
  last

pageVars  == <<present, nativeSmooth, nativeLazy, page, constructed, listeners,
               loads>>
themeVars == <<stored, osDark, theme, dataTheme, ariaPressed, userChoice>>
navVars   == <<layout, scrollY, active, ariaExpanded, mobileOpen, headerScrolled>>
animRun   == <<skillTimers, barFills, skillAnimations, skillSeen, sectionStyle,
               sectionAssigned, sectionSeen>>
animVars  == <<skillObserved, hasAnimated, sectionObserved, animRun>>
formVars  == <<fields, statusText, statusClass, timers, now, inflight, issued,
               validSubmits, submits, shownAt, latestOutcome>>
vars      == <<pageVars, themeVars, navVars, animVars, formVars, last>>

----------------------------------------------------------------------------
(* The document contract                                                    *)

Elements ==
  {"theme-toggle", "header", "mobile-toggle", "nav-links", "skills",
   "contact-form", "form-status"}

Controllers ==
  <<"ThemeManager", "NavigationManager", "SkillAnimator", "SectionAnimator",
    "FormHandler", "SmoothScroll", "LazyLoader">>

Themes == {"light", "dark"}

BoolStr(b) == IF b THEN "true" ELSE "false"

----------------------------------------------------------------------------
(* ThemeManager.  A theme state t is the record                             *)
(* [theme, dataTheme, ariaPressed, stored].                                 *)

updateThemeToggle(t) == [t EXCEPT !.ariaPressed = BoolStr(t.theme = "dark")]

\* a slip that sets the attribute and forgets the toggle
applyTheme_NoToggleUpdate(t, th) == [t EXCEPT !.dataTheme = th]

applyTheme(t, th) == updateThemeToggle([t EXCEPT !.dataTheme = th])

\* a slip that applies the theme without persisting it
setTheme_NoPersist(t, th) == applyTheme([t EXCEPT !.theme = th], th)

setTheme(t, th) ==
  LET applied == applyTheme([t EXCEPT !.theme = th], th)
  IN  [applied EXCEPT !.stored = th]

\* a slip that can only switch to dark
toggleTheme_OneWay(t) == setTheme([t EXCEPT !.theme = "dark"], "dark")

toggleTheme(t) ==
  LET flipped == IF t.theme = "light" THEN "dark" ELSE "light"
  IN  setTheme([t EXCEPT !.theme = flipped], flipped)

\* init(): applyTheme dereferences this.themeToggle, which is null when the
\* element is missing: the data-theme attribute is already set when it throws.
ThemeManager_init(t, os, hasToggle) ==
  IF ~hasToggle
  THEN [state |-> [t EXCEPT !.dataTheme = t.theme], threw |-> TRUE,
        attached |-> {}]
  ELSE LET applied == applyTheme(t, t.theme)
       IN  [state |-> IF applied.theme = "light" /\ os
                        THEN setTheme(applied, "dark") ELSE applied,
            threw |-> FALSE,
            attached |-> {"theme-toggle:click"}]

ThemeManager_constructor(t, os, hasToggle) ==
  ThemeManager_init(
    [t EXCEPT !.theme = IF t.stored = "none" THEN "light" ELSE t.stored],
    os, hasToggle)

----------------------------------------------------------------------------
(* NavigationManager.  An href is the sequence <<"#", id>>; the bare "#"    *)
(* is <<"#">>.  A layout maps the ids of the elements that exist to their   *)
(* offsetTop and offsetHeight.                                              *)

ProbeOffset == 100
HeaderThreshold == 50

Href(id) == <<"#", id>>

NavLinks == <<Href("home"), Href("about"), Href("ghost"), Href("about"), <<"#">>>>

LinkIds == 1..Len(NavLinks)

Layouts ==
  { \* a normal vertical layout: adjacent, disjoint sections
    [id \in {"home", "about"} |->
       IF id = "home" THEN [top |-> 0, height |-> 400]
                      ELSE [top |-> 400, height |-> 300]],
    \* a gap above the first section and two overlapping sections
    [id \in {"home", "about"} |->
       IF id = "home" THEN [top |-> 150, height |-> 250]
                      ELSE [top |-> 350, height |-> 350]],
    \* a section of height 0, and every link target but "about" missing
    [id \in {"about"} |-> [top |-> 151, height |-> 0]] }

ScrollPositions == {0, 50, 51, 299, 300, 599, 600}

\* link.getAttribute("href").substring(1)
TargetId(href) == IF Len(href) > 1 THEN href[2] ELSE ""

\* document.getElementById(id) finds an element
ElementExists(lay, id) == id \in DOMAIN lay

\* a slip that makes the upper end of the range inclusive
InSection_Inclusive(lay, id, scrollPos) ==
  /\ ElementExists(lay, id)
  /\ scrollPos >= lay[id].top
  /\ scrollPos <= lay[id].top + lay[id].height

\* lines 106-108: the probe lies in [offsetTop, offsetTop + offsetHeight)
InSection(lay, id, scrollPos) ==
  /\ ElementExists(lay, id)
  /\ scrollPos >= lay[id].top
  /\ scrollPos < lay[id].top + lay[id].height

\* the forEach of lines 100-112, from link i on
RECURSIVE updateActiveLink_byScroll(_, _, _, _)
updateActiveLink_byScroll(act, i, y, lay) ==
  IF i > Len(NavLinks) THEN act
  ELSE LET removed == act \ {i}
           scrollPos == y + ProbeOffset
           added == IF InSection(lay, TargetId(NavLinks[i]), scrollPos)
                      THEN removed \cup {i} ELSE removed
       IN  updateActiveLink_byScroll(added, i + 1, y, lay)

\* a slip that adds the class to the clicked href without clearing the others
RECURSIVE updateActiveLink_byHref_NoRemove(_, _, _)
updateActiveLink_byHref_NoRemove(act, i, href) ==
  IF i > Len(NavLinks) THEN act
  ELSE updateActiveLink_byHref_NoRemove(
         IF NavLinks[i] = href THEN act \cup {i} ELSE act, i + 1, href)

\* the forEach of lines 114-119, from link i on
RECURSIVE updateActiveLink_byHref(_, _, _)
updateActiveLink_byHref(act, i, href) ==
  IF i > Len(NavLinks) THEN act
  ELSE LET removed == act \ {i}
           added == IF NavLinks[i] = href THEN removed \cup {i} ELSE removed
       IN  updateActiveLink_byHref(added, i + 1, href)

\* updateActiveLink(href = null); the null href is <<>>
updateActiveLink(act, href, y, lay) ==
  IF href = <<>> THEN updateActiveLink_byScroll(act, 1, y, lay)
                 ELSE updateActiveLink_byHref(act, 1, href)

\* document.querySelector(href): "#" alone is no selector and throws
QuerySelectorThrows(href) == Len(href) < 2

\* handleNavClick: only a click whose target exists reaches updateActiveLink
handleNavClick(act, href, y, lay) ==
  IF QuerySelectorThrows(href) THEN act
  ELSE IF ElementExists(lay, TargetId(href))
         THEN updateActiveLink(act, href, y, lay)
         ELSE act

\* a slip that flips the attribute and leaves the class alone
toggleMobileMenu_NoClass(m, hasMenu) ==
  [m EXCEPT !.ariaExpanded = BoolStr(~(m.ariaExpanded = "true"))]

\* a menu state m is the record [ariaExpanded, mobileOpen]
toggleMobileMenu(m, hasMenu) ==
  LET isExpanded == m.ariaExpanded = "true"
      flipped == [m EXCEPT !.ariaExpanded = BoolStr(~isExpanded)]
  IN  IF hasMenu THEN [flipped EXCEPT !.mobileOpen = ~m.mobileOpen]
                 ELSE flipped

closeMobileMenu(m, hasMenu) ==
  LET closed == [m EXCEPT !.ariaExpanded = "false"]
  IN  IF hasMenu THEN [closed EXCEPT !.mobileOpen = FALSE] ELSE closed

\* a slip that adds the class at the threshold itself
updateHeaderOnScroll_AtThreshold(hs, y, hasHeader) ==
  IF ~hasHeader THEN hs ELSE y >= HeaderThreshold

updateHeaderOnScroll(hs, y, hasHeader) ==
  IF ~hasHeader THEN hs ELSE y > HeaderThreshold

\* constructor and init(): this.mobileToggle is null when the element is
\* missing, so line 71 throws after the first click listeners are attached.
NavigationManager_constructor(hasMobileToggle) ==
  IF ~hasMobileToggle
  THEN [threw |-> TRUE, attached |-> {"nav-link:click:handleNavClick"}]
  ELSE [threw |-> FALSE,
        attached |-> {"nav-link:click:handleNavClick", "mobile-toggle:click",
                      "nav-link:click:closeMobileMenu",
                      "window:scroll:updateHeaderOnScroll",
                      "window:scroll:updateActiveLink"}]

----------------------------------------------------------------------------
(* SkillAnimator, SectionAnimator, SmoothScroll, LazyLoader: construction   *)

SkillAnimator_constructor(hasSkills) ==
  [threw |-> FALSE, hasAnimated |-> FALSE, observed |-> hasSkills]

\* observes every section element of the document
SectionAnimator_constructor(lay) == [threw |-> FALSE, observed |-> DOMAIN lay]

FormHandler_constructor(hasForm) ==
  [threw |-> FALSE,
   attached |-> IF hasForm THEN {"contact-form:submit"} ELSE {}]

SmoothScroll_constructor(native) ==
  [threw |-> FALSE,
   attached |-> IF native THEN {} ELSE {"anchor:click:polyfill"}]

LazyLoader_constructor(native) ==
  [threw |-> FALSE,
   attached |-> IF native THEN {} ELSE {"img:intersection:polyfill"}]

----------------------------------------------------------------------------
(* FormHandler.  A string is a sequence of characters.  A form state f is   *)
(* the record [fields, statusText, statusClass, timers, inflight, issued,   *)
(* threw]; threw records an exception that escaped the handler.             *)

StatusTimeoutMs == 5000

FieldNames == {"name", "email", "subject", "message"}

IsSpace(c) == c = " "

\* String.prototype.trim
RECURSIVE TrimLeft(_)
TrimLeft(s) ==
  IF s # <<>> /\ IsSpace(Head(s)) THEN TrimLeft(Tail(s)) ELSE s

RECURSIVE TrimRight(_)
TrimRight(s) ==
  IF s # <<>> /\ IsSpace(s[Len(s)])
    THEN TrimRight(SubSeq(s, 1, Len(s) - 1)) ELSE s

Trim(s) == TrimRight(TrimLeft(s))

\* every character of s[from..to] is in the class [^\s@], and there is one
NonSpaceAtRun(s, from, to) ==
  /\ from <= to
  /\ \A k \in from..to : ~IsSpace(s[k]) /\ s[k] # "@"

\* a slip that lets the part after the dot be empty: [^\s@]* for [^\s@]+
emailRegex_test_EmptyTld(s) ==
  \E at \in 1..Len(s) : \E dot \in 1..Len(s) :
    /\ s[at] = "@"
    /\ s[dot] = "."
    /\ at < dot
    /\ NonSpaceAtRun(s, 1, at - 1)
    /\ NonSpaceAtRun(s, at + 1, dot - 1)
    /\ \A k \in dot + 1..Len(s) : ~IsSpace(s[k]) /\ s[k] # "@"

\* /^[^\s@]+@[^\s@]+\.[^\s@]+$/.test(s)
emailRegex_test(s) ==
  \E at \in 1..Len(s) : \E dot \in 1..Len(s) :
    /\ s[at] = "@"
    /\ s[dot] = "."
    /\ at < dot
    /\ NonSpaceAtRun(s, 1, at - 1)
    /\ NonSpaceAtRun(s, at + 1, dot - 1)
    /\ NonSpaceAtRun(s, dot + 1, Len(s))

validateForm(flds) ==
  LET name == Trim(flds.name)
      email == Trim(flds.email)
      subject == Trim(flds.subject)
      message == Trim(flds.message)
  IN  /\ name # <<>>
      /\ email # <<>>
      /\ emailRegex_test(email)
      /\ subject # <<>>
      /\ message # <<>>

\* form.reset(): the fields go back to the document's default values
FormDefaults == [n \in FieldNames |-> <<>>]

ValidationMsg == "Please fill in all fields correctly"
SuccessMsg == "Message sent successfully! I'll get back to you soon."
FailureMsg == "Failed to send message. Please try again."

NeutralClass == <<"form-status">>

\* a slip that shows the message and never schedules the clearing timer
showStatus_NoTimer(f, message, type, t, hasStatus) ==
  IF ~hasStatus THEN [f EXCEPT !.threw = TRUE]
  ELSE [f EXCEPT !.statusText = message,
                 !.statusClass = <<"form-status", type>>]

\* showStatus: this.formStatus is null when the element is missing
showStatus(f, message, type, t, hasStatus) ==
  IF ~hasStatus THEN [f EXCEPT !.threw = TRUE]
  ELSE [f EXCEPT !.statusText = message,
                 !.statusClass = <<"form-status", type>>,
                 !.timers = Append(@, t + StatusTimeoutMs)]

\* the callback of lines 283-285
statusTimeout(cls) == NeutralClass

\* a slip that drops a submit while a request is in flight
submitForm_Dedup(f) ==
  IF f.inflight # {} THEN f
  ELSE [f EXCEPT !.issued = @ + 1,
                 !.inflight = @ \cup {[id |-> f.issued + 1, data |-> f.fields]}]

\* submitForm up to the fetch call: one POST carrying the FormData snapshot
submitForm(f) ==
  [f EXCEPT !.issued = @ + 1,
            !.inflight = @ \cup {[id |-> f.issued + 1, data |-> f.fields]}]

\* a slip that resets the form on every settlement
onRejected_Reset(f, t, hasStatus) ==
  [showStatus(f, FailureMsg, "error", t, hasStatus) EXCEPT !.fields = FormDefaults]

\* the .catch callback of lines 274-276
onRejected(f, t, hasStatus) == showStatus(f, FailureMsg, "error", t, hasStatus)

\* the .then callback of lines 263-273 followed by .catch: an exception in
\* the callback (the thrown Error, or showStatus on a null element) rejects
\* the promise .catch is chained on
onFulfilled(f, ok, t, hasStatus) ==
  IF ok
  THEN LET shown == showStatus(f, SuccessMsg, "success", t, hasStatus)
       IN  IF shown.threw
             THEN onRejected([shown EXCEPT !.threw = FALSE], t, hasStatus)
             ELSE [shown EXCEPT !.fields = FormDefaults]
  ELSE onRejected(f, t, hasStatus)

\* a slip that forgets the return after the validation message
handleSubmit_NoReturn(f, t, hasStatus) ==
  IF ~validateForm(f.fields)
    THEN submitForm(showStatus(f, ValidationMsg, "error", t, hasStatus))
    ELSE submitForm(f)

handleSubmit(f, t, hasStatus) ==
  IF ~validateForm(f.fields)
    THEN showStatus(f, ValidationMsg, "error", t, hasStatus)
    ELSE submitForm(f)

----------------------------------------------------------------------------
(* Bounds and inputs                                                        *)

MaxLoads == 3       \* page loads explored
MaxBatch == 2       \* entries one intersection callback receives
MaxBars == 2        \* .skill-progress elements in the document
MaxTextLen == 1     \* length of the name, subject and message explored
MaxEmailLen == 5    \* length of the email explored
MaxSubmits == 3     \* submit events explored
MaxTime == 10000    \* the clock stops here
TickMs == 2500      \* the longest step of the clock

Min(a, b) == IF a <= b THEN a ELSE b

Form(n, e, s, m) == [name |-> n, email |-> e, subject |-> s, message |-> m]

\* what the user may have typed when an event arrives
FormInputs ==
  { Form(<<"a">>, <<"a", "@", "b", ".", "c">>, <<"s">>, <<"m">>),
    Form(<<" ", "a">>, <<" ", "a", "@", "b", ".", "c", " ">>, <<"s">>, <<"m", " ">>),
    Form(<<>>, <<"a", "@", "b", ".", "c">>, <<"s">>, <<"m">>),
    Form(<<"a">>, <<"a", "@", "b", ".", "c">>, <<" ">>, <<"m">>),
    Form(<<"a">>, <<"a", "@", "b">>, <<"s">>, <<"m">>),
    Form(<<"a">>, <<"a", " ", "@", "b", ".", "c">>, <<"s">>, <<"m">>),
    FormDefaults }

Outcomes == {"ok", "http-error", "network-error"}

DefaultLayout ==
  CHOOSE lay \in Layouts : DOMAIN lay = {"home", "about"} /\ lay["home"].top = 0

----------------------------------------------------------------------------
(* SkillAnimator and SectionAnimator: the observer callbacks.  An animator  *)
(* state a is the record of the animVars.                                   *)

StaggerMs == 100

SkillBars == 1..MaxBars

SlideInUp == "slideInUp 0.8s ease-out forwards"

\* the batches of entries an observer may deliver for the given targets
RECURSIVE SeqsUpTo(_, _)
SeqsUpTo(S, n) ==
  IF n = 0 THEN {<<>>}
  ELSE LET shorter == SeqsUpTo(S, n - 1)
       IN  shorter \cup {Append(q, x) : q \in shorter, x \in S}

Batches(targets) ==
  SeqsUpTo([target : targets, isIntersecting : BOOLEAN], MaxBatch) \ {<<>>}

\* animateSkills: one timer per bar, bar index * 100 ms from now; the delays
\* grow with the index, so the timers of one call run in index order
animateSkills(a) ==
  [a EXCEPT !.skillAnimations = @ + 1,
            !.skillTimers = @ \o [i \in SkillBars |->
                                    [bar |-> i, delay |-> (i - 1) * StaggerMs]]]

\* a slip that leaves out the hasAnimated test
skillEntry_NoFlag(a, entry) ==
  IF entry.isIntersecting
    THEN [animateSkills(a) EXCEPT !.hasAnimated = TRUE, !.skillObserved = FALSE]
    ELSE a

\* the body of the forEach of lines 157-163
skillEntry(a, entry) ==
  IF entry.isIntersecting /\ ~a.hasAnimated
    THEN [animateSkills(a) EXCEPT !.hasAnimated = TRUE, !.skillObserved = FALSE]
    ELSE a

\* the callback of lines 156-164
RECURSIVE skillCallback(_, _)
skillCallback(a, entries) ==
  IF entries = <<>> THEN a
  ELSE skillCallback(skillEntry(a, Head(entries)), Tail(entries))

\* the timer callback of lines 174-177
skillBarTimeout(fills, bar) == [fills EXCEPT ![bar] = @ + 1]

\* the body of the forEach of lines 195-200
sectionEntry(a, entry) ==
  IF entry.isIntersecting
    THEN [a EXCEPT !.sectionStyle[entry.target] = SlideInUp,
                   !.sectionAssigned[entry.target] = @ + 1,
                   !.sectionObserved = @ \ {entry.target}]
    ELSE a

\* the callback of lines 194-201
RECURSIVE sectionCallback(_, _)
sectionCallback(a, entries) ==
  IF entries = <<>> THEN a
  ELSE sectionCallback(sectionEntry(a, Head(entries)), Tail(entries))

----------------------------------------------------------------------------
(* Initial states: the page as served, before DOMContentLoaded              *)

InitDocument(docs, platforms) ==
  /\ present \in docs
  /\ nativeSmooth \in platforms
  /\ nativeLazy \in platforms
  /\ page = "loading"
  /\ constructed = <<>>
  /\ listeners = {}
  /\ loads = 0
  /\ last = [op |-> "serve", arg |-> ""]

InitThemeState(stores, prefs) ==
  /\ stored \in stores
  /\ osDark \in prefs
  /\ theme = "none"
  /\ dataTheme = "none"
  /\ ariaPressed = "none"
  /\ userChoice = "none"

InitNavState(lays) ==
  /\ layout \in lays
  /\ scrollY = 0
  /\ active = {}
  /\ ariaExpanded = "false"
  /\ mobileOpen = FALSE
  /\ headerScrolled = FALSE

InitAnimState ==
  /\ skillObserved = FALSE
  /\ hasAnimated = FALSE
  /\ sectionObserved = {}
  /\ skillTimers = <<>>
  /\ barFills = [b \in SkillBars |-> 0]
  /\ skillAnimations = 0
  /\ skillSeen = FALSE
  /\ sectionStyle = [s \in DOMAIN layout |-> ""]
  /\ sectionAssigned = [s \in DOMAIN layout |-> 0]
  /\ sectionSeen = {}

InitFormState ==
  /\ fields = FormDefaults
  /\ statusText = ""
  /\ statusClass = NeutralClass
  /\ timers = <<>>
  /\ now = 0
  /\ inflight = {}
  /\ issued = 0
  /\ validSubmits = 0
  /\ submits = 0
  /\ shownAt = -1
  /\ latestOutcome = "none"

StoredValues == {"none"} \cup Themes

Init ==
  /\ InitDocument(SUBSET Elements, BOOLEAN)
  /\ InitThemeState(StoredValues, BOOLEAN)
  /\ InitNavState(Layouts)
  /\ InitAnimState
  /\ InitFormState

----------------------------------------------------------------------------
(* The page-ready handler, lines 365-376: the constructors run in order and *)
(* the first exception ends the handler.                                    *)

ThemeState ==
  [theme |-> theme, dataTheme |-> dataTheme, ariaPressed |-> ariaPressed,
   stored |-> stored]

DOMContentLoaded ==
  /\ page = "loading"
  /\ LET tm == ThemeManager_constructor(ThemeState, osDark, "theme-toggle" \in present)
         nm == NavigationManager_constructor("mobile-toggle" \in present)
         sk == SkillAnimator_constructor("skills" \in present)
         se == SectionAnimator_constructor(layout)
         fh == FormHandler_constructor("contact-form" \in present)
         ss == SmoothScroll_constructor(nativeSmooth)
         ll == LazyLoader_constructor(nativeLazy)
     IN  /\ theme' = tm.state.theme
         /\ dataTheme' = tm.state.dataTheme
         /\ ariaPressed' = tm.state.ariaPressed
         /\ stored' = tm.state.stored
         /\ IF tm.threw
              THEN /\ page' = "error"
                   /\ constructed' = <<>>
                   /\ listeners' = tm.attached
                   /\ UNCHANGED animVars
              ELSE IF nm.threw
              THEN /\ page' = "error"
                   /\ constructed' = SubSeq(Controllers, 1, 1)
                   /\ listeners' = tm.attached \cup nm.attached
                   /\ UNCHANGED animVars
              ELSE /\ page' = "ready"
                   /\ constructed' = Controllers
                   /\ listeners' = tm.attached \cup nm.attached \cup fh.attached
                                     \cup ss.attached \cup ll.attached
                   /\ skillObserved' = sk.observed
                   /\ hasAnimated' = sk.hasAnimated
                   /\ sectionObserved' = se.observed
                   /\ UNCHANGED animRun
  /\ loads' = loads + 1
  /\ last' = [op |-> "load", arg |-> [stored |-> stored, osDark |-> osDark]]
  /\ UNCHANGED <<present, nativeSmooth, nativeLazy, osDark, userChoice>>
  /\ UNCHANGED <<navVars, formVars>>

\* the user reloads the page: the document and the script start over, and
\* only localStorage survives
Reload ==
  /\ page # "loading"
  /\ loads < MaxLoads
  /\ page' = "loading"
  /\ constructed' = <<>>
  /\ listeners' = {}
  /\ theme' = "none"
  /\ dataTheme' = "none"
  /\ ariaPressed' = "none"
  /\ scrollY' = 0
  /\ active' = {}
  /\ ariaExpanded' = "false"
  /\ mobileOpen' = FALSE
  /\ headerScrolled' = FALSE
  /\ skillObserved' = FALSE
  /\ hasAnimated' = FALSE
  /\ sectionObserved' = {}
  /\ skillTimers' = <<>>
  /\ barFills' = [b \in SkillBars |-> 0]
  /\ skillAnimations' = 0
  /\ skillSeen' = FALSE
  /\ sectionStyle' = [s \in DOMAIN layout |-> ""]
  /\ sectionAssigned' = [s \in DOMAIN layout |-> 0]
  /\ sectionSeen' = {}
  /\ fields' = FormDefaults
  /\ statusText' = ""
  /\ statusClass' = NeutralClass
  /\ timers' = <<>>
  /\ inflight' = {}
  /\ shownAt' = -1
  /\ latestOutcome' = "none"
  /\ last' = [op |-> "reload", arg |-> ""]
  /\ UNCHANGED <<present, nativeSmooth, nativeLazy, loads, stored, osDark,
                 userChoice, layout, now, issued, validSubmits, submits>>

----------------------------------------------------------------------------
(* ThemeManager events                                                      *)

\* click on the theme toggle, line 19
ToggleClick ==
  /\ "theme-toggle:click" \in listeners
  /\ LET t == toggleTheme(ThemeState)
     IN  /\ theme' = t.theme
         /\ dataTheme' = t.dataTheme
         /\ ariaPressed' = t.ariaPressed
         /\ stored' = t.stored
         /\ userChoice' = t.theme
  /\ last' = [op |-> "toggle",
              arg |-> IF last.op = "toggle"
                        THEN <<last.arg[Len(last.arg)], theme>>
                        ELSE <<theme>>]
  /\ UNCHANGED <<pageVars, osDark, navVars, animVars, formVars>>

\* the user changes the colour scheme of the operating system
OsPreferenceChange ==
  /\ osDark' = ~osDark
  /\ last' = [op |-> "os", arg |-> ""]
  /\ UNCHANGED <<pageVars, stored, theme, dataTheme, ariaPressed, userChoice,
                 navVars, animVars, formVars>>

----------------------------------------------------------------------------
(* NavigationManager events                                                 *)

MenuState == [ariaExpanded |-> ariaExpanded, mobileOpen |-> mobileOpen]

\* click on nav link i: the listeners of lines 67 and 75, in that order
NavLinkClick(i) ==
  /\ "nav-link:click:handleNavClick" \in listeners
  /\ active' = handleNavClick(active, NavLinks[i], scrollY, layout)
  /\ LET m == IF "nav-link:click:closeMobileMenu" \in listeners
                THEN closeMobileMenu(MenuState, "nav-links" \in present)
                ELSE MenuState
     IN  /\ ariaExpanded' = m.ariaExpanded
         /\ mobileOpen' = m.mobileOpen
  /\ last' = [op |-> "navclick", arg |-> i]
  /\ UNCHANGED <<pageVars, themeVars, layout, scrollY, headerScrolled,
                 animVars, formVars>>

\* click on the mobile menu toggle, line 71
MobileToggleClick ==
  /\ "mobile-toggle:click" \in listeners
  /\ LET m == toggleMobileMenu(MenuState, "nav-links" \in present)
     IN  /\ ariaExpanded' = m.ariaExpanded
         /\ mobileOpen' = m.mobileOpen
  /\ last' = [op |-> "menu", arg |-> MenuState]
  /\ UNCHANGED <<pageVars, themeVars, layout, scrollY, active, headerScrolled,
                 animVars, formVars>>

\* a scroll event at position y: the listeners of lines 79 and 82, in order
Scroll(y) ==
  /\ y # scrollY
  /\ scrollY' = y
  /\ headerScrolled' =
       IF "window:scroll:updateHeaderOnScroll" \in listeners
         THEN updateHeaderOnScroll(headerScrolled, y, "header" \in present)
         ELSE headerScrolled
  /\ active' =
       IF "window:scroll:updateActiveLink" \in listeners
         THEN updateActiveLink(active, <<>>, y, layout)
         ELSE active
  /\ last' = [op |-> "scroll", arg |-> y]
  /\ UNCHANGED <<pageVars, themeVars, layout, ariaExpanded, mobileOpen,
                 animVars, formVars>>

----------------------------------------------------------------------------
(* SkillAnimator and SectionAnimator events                                 *)

AnimState ==
  [skillObserved |-> skillObserved, hasAnimated |-> hasAnimated,
   sectionObserved |-> sectionObserved, skillTimers |-> skillTimers,
   skillAnimations |-> skillAnimations, sectionStyle |-> sectionStyle,
   sectionAssigned |-> sectionAssigned]

SetAnimState(a) ==
  /\ skillObserved' = a.skillObserved
  /\ hasAnimated' = a.hasAnimated
  /\ sectionObserved' = a.sectionObserved
  /\ skillTimers' = a.skillTimers
  /\ skillAnimations' = a.skillAnimations
  /\ sectionStyle' = a.sectionStyle
  /\ sectionAssigned' = a.sectionAssigned

\* the observer of the skills section delivers a batch of entries
SkillIntersection(entries) ==
  /\ skillObserved
  /\ SetAnimState(skillCallback(AnimState, entries))
  /\ skillSeen' = (skillSeen \/ \E k \in 1..Len(entries) : entries[k].isIntersecting)
  /\ last' = [op |-> "skills", arg |-> entries]
  /\ UNCHANGED <<pageVars, themeVars, navVars, formVars, barFills, sectionSeen>>

\* the oldest pending timer of animateSkills runs
SkillBarTimeout ==
  /\ skillTimers # <<>>
  /\ barFills' = skillBarTimeout(barFills, Head(skillTimers).bar)
  /\ skillTimers' = Tail(skillTimers)
  /\ last' = [op |-> "bar", arg |-> Head(skillTimers).bar]
  /\ UNCHANGED <<pageVars, themeVars, navVars, formVars, skillObserved,
                 hasAnimated, sectionObserved, skillAnimations, skillSeen,
                 sectionStyle, sectionAssigned, sectionSeen>>

\* the observer of the sections delivers a batch of entries
SectionIntersection(entries) ==
  /\ sectionObserved # {}
  /\ SetAnimState(sectionCallback(AnimState, entries))
  /\ sectionSeen' = sectionSeen \cup
       {entries[k].target : k \in {j \in 1..Len(entries) : entries[j].isIntersecting}}
  /\ last' = [op |-> "sections", arg |-> entries]
  /\ UNCHANGED <<pageVars, themeVars, navVars, formVars, barFills, skillSeen>>

AnimEvents ==
  \/ \E entries \in Batches({"skills"}) : SkillIntersection(entries)
  \/ SkillBarTimeout
  \/ \E entries \in Batches(sectionObserved) : SectionIntersection(entries)

----------------------------------------------------------------------------
(* FormHandler events                                                       *)

FormState ==
  [fields |-> fields, statusText |-> statusText, statusClass |-> statusClass,
   timers |-> timers, inflight |-> inflight, issued |-> issued,
   threw |-> FALSE]

SetFormState(f) ==
  /\ fields' = f.fields
  /\ statusText' = f.statusText
  /\ statusClass' = f.statusClass
  /\ timers' = f.timers
  /\ inflight' = f.inflight
  /\ issued' = f.issued

\* the user types into the form
EditForm(v) ==
  /\ "contact-form" \in present
  /\ page # "loading"
  /\ v # fields
  /\ fields' = v
  /\ last' = [op |-> "edit", arg |-> ""]
  /\ UNCHANGED <<pageVars, themeVars, navVars, animVars, statusText,
                 statusClass, timers, now, inflight, issued, validSubmits,
                 submits, shownAt, latestOutcome>>

\* a submit event on the form, line 224
Submit ==
  /\ "contact-form:submit" \in listeners
  /\ submits < MaxSubmits
  /\ LET hasStatus == "form-status" \in present
         valid == validateForm(fields)
     IN  /\ SetFormState(handleSubmit(FormState, now, hasStatus))
         /\ validSubmits' = IF valid THEN validSubmits + 1 ELSE validSubmits
         /\ shownAt' = IF ~valid /\ hasStatus THEN now ELSE shownAt
         /\ latestOutcome' = IF valid THEN "pending" ELSE latestOutcome
         /\ last' = [op |-> "submit", arg |-> BoolStr(valid)]
  /\ submits' = submits + 1
  /\ UNCHANGED <<pageVars, themeVars, navVars, animVars, now>>

\* the fetch of request r settles: fulfilled with response.ok, fulfilled
\* with another status, or rejected
Settle(r, outcome) ==
  /\ r \in inflight
  /\ LET hasStatus == "form-status" \in present
         pending == [FormState EXCEPT !.inflight = @ \ {r}]
     IN  /\ SetFormState(IF outcome = "network-error"
                           THEN onRejected(pending, now, hasStatus)
                           ELSE onFulfilled(pending, outcome = "ok", now, hasStatus))
         /\ shownAt' = IF hasStatus THEN now ELSE shownAt
         /\ latestOutcome' = IF r.id = issued THEN outcome ELSE latestOutcome
  /\ last' = [op |-> "settle", arg |-> outcome]
  /\ UNCHANGED <<pageVars, themeVars, navVars, animVars, now, validSubmits,
                 submits>>

\* the oldest pending timer of showStatus is due and its callback runs
StatusTimeout ==
  /\ timers # <<>>
  /\ Head(timers) <= now
  /\ statusClass' = statusTimeout(statusClass)
  /\ timers' = Tail(timers)
  /\ last' = [op |-> "timeout", arg |-> ""]
  /\ UNCHANGED <<pageVars, themeVars, navVars, animVars, fields, statusText,
                 now, inflight, issued, validSubmits, submits, shownAt,
                 latestOutcome>>

\* time passes, but never beyond a timer that is due
Tick ==
  /\ now < MaxTime
  /\ IF timers = <<>> THEN TRUE ELSE Head(timers) > now
  /\ now' = IF timers = <<>> THEN now + TickMs
                             ELSE Min(now + TickMs, Head(timers))
  /\ UNCHANGED <<pageVars, themeVars, navVars, animVars, fields, statusText,
                 statusClass, timers, inflight, issued, validSubmits, submits,
                 shownAt, latestOutcome, last>>

----------------------------------------------------------------------------
(* Specifications                                                           *)

ThemeEvents == ToggleClick \/ OsPreferenceChange \/ Reload

NavEvents ==
  \/ \E i \in LinkIds : NavLinkClick(i)
  \/ MobileToggleClick
  \/ \E y \in ScrollPositions : Scroll(y)

FormEvents ==
  \/ \E v \in FormInputs : EditForm(v)
  \/ Submit
  \/ \E r \in inflight : \E outcome \in Outcomes : Settle(r, outcome)
  \/ StatusTimeout
  \/ Tick

Next == DOMContentLoaded \/ ThemeEvents \/ NavEvents \/ AnimEvents \/ FormEvents

Spec == Init /\ [][Next]_vars

\* the document of the contract, on a platform with native smooth scrolling
\* and lazy loading
InitComplete ==
  /\ InitDocument({Elements}, {TRUE})
  /\ InitFormState

\* ThemeManager on its own, with and without its toggle in the document
InitTheme ==
  /\ InitDocument({Elements, Elements \ {"theme-toggle"}}, {TRUE})
  /\ InitFormState
  /\ InitThemeState(StoredValues, BOOLEAN)
  /\ InitNavState({DefaultLayout})
  /\ InitAnimState

NextTheme == DOMContentLoaded \/ ThemeEvents

SpecTheme == InitTheme /\ [][NextTheme]_vars

\* NavigationManager on its own
InitNav ==
  /\ InitComplete
  /\ InitThemeState({"none"}, {FALSE})
  /\ InitNavState(Layouts)
  /\ InitAnimState

NextNav == DOMContentLoaded \/ NavEvents

SpecNav == InitNav /\ [][NextNav]_vars

\* SkillAnimator and SectionAnimator on their own, with and without the
\* skills section in the document
InitAnim ==
  /\ InitDocument({Elements, Elements \ {"skills"}}, {TRUE})
  /\ InitThemeState({"none"}, {FALSE})
  /\ InitNavState(Layouts)
  /\ InitAnimState
  /\ InitFormState

NextAnim == DOMContentLoaded \/ AnimEvents

SpecAnim == InitAnim /\ [][NextAnim]_vars

\* validateForm on its own, over every combination of bounded field values
Alphabet == {"a", "@", ".", " "}

TextAlphabet == {"a", " "}

ValidationInputs ==
  [name : SeqsUpTo(TextAlphabet, MaxTextLen),
   email : SeqsUpTo(Alphabet, MaxEmailLen),
   subject : SeqsUpTo(TextAlphabet, MaxTextLen),
   message : SeqsUpTo(TextAlphabet, MaxTextLen)]

InitValidate ==
  /\ InitDocument({Elements}, {TRUE})
  /\ InitThemeState({"none"}, {FALSE})
  /\ InitNavState({DefaultLayout})
  /\ InitAnimState
  /\ fields \in ValidationInputs
  /\ statusText = ""
  /\ statusClass = NeutralClass
  /\ timers = <<>>
  /\ now = 0
  /\ inflight = {}
  /\ issued = 0
  /\ validSubmits = 0
  /\ submits = 0
  /\ shownAt = -1
  /\ latestOutcome = "none"

\* validateForm is applied to the fields
Validate ==
  /\ last.op # "validate"
  /\ last' = [op |-> "validate", arg |-> BoolStr(validateForm(fields))]
  /\ UNCHANGED <<pageVars, themeVars, navVars, animVars, formVars>>

SpecValidate == InitValidate /\ [][Validate]_vars

\* FormHandler on its own
InitForm ==
  /\ InitComplete
  /\ InitThemeState({"none"}, {FALSE})
  /\ InitNavState({DefaultLayout})
  /\ InitAnimState

NextForm == DOMContentLoaded \/ FormEvents

SpecForm == InitForm /\ [][NextForm]_vars

\* the page-ready handler over every document and platform
SpecLoad == Init /\ [][DOMContentLoaded]_vars

----------------------------------------------------------------------------
(* Properties                                                               *)

\* the theme a load is said to end with, given what is stored and what the
\* operating system reports
EffectiveTheme(st, os) ==
  IF st # "none" THEN st ELSE IF os THEN "dark" ELSE "light"

\* C1: once ThemeManager.init has finished, the theme in effect is the stored
\* value if one is stored, else "dark" if the OS reports dark, else "light";
\* a stored "light" stays "light" under a dark OS preference.
C1_ThemeAfterInit ==
  (last.op = "load" /\ page = "ready") =>
    /\ theme = EffectiveTheme(last.arg.stored, last.arg.osDark)
    /\ dataTheme = theme

\* C2: whatever subset of the expected elements is missing, the page-ready
\* handler raises no error and constructs all seven controllers in order.
C2_LoadNeverFails ==
  page # "loading" => page = "ready" /\ constructed = Controllers

\* C3: the stored value changes only in a toggle click; the page-ready
\* handler leaves it as it was, and nothing deletes it.
C3_StoredChangesOnlyByToggle ==
  [][stored' # stored => last'.op = "toggle" /\ stored' # "none"]_vars

\* C4: in every state after a page load and any toggle clicks, the stored
\* value equals the data-theme attribute.
C4_StoredEqualsApplied ==
  page = "ready" => stored = dataTheme

\* C4 (amended): after a page load and any toggle clicks, a value that is
\* stored equals the data-theme attribute; when nothing is stored the
\* attribute is "light".
C4_StoredEqualsAppliedIfStored ==
  page # "loading" =>
    /\ stored # "none" => stored = dataTheme
    /\ stored = "none" => dataTheme = "light"

C4_Witness ==
  /\ page = "ready"
  /\ last.op = "toggle"
  /\ stored = "dark"
  /\ dataTheme = "dark"

\* a step in which a fetch settles
SettleStep == inflight' # inflight /\ inflight' \subseteq inflight

\* a step in which a submit event is handled
SubmitStep == submits' = submits + 1

ErrorClass == <<"form-status", "error">>
SuccessClass == <<"form-status", "success">>

\* C5: when the POST of a validated submit completes with a successful
\* response the success message is shown and the fields are reset; when it
\* completes with another status or fails at network level the failure
\* message is shown and the fields stay as they were.
C5_SettleOutcome ==
  [][SettleStep =>
       IF last'.arg = "ok"
         THEN /\ statusText' = SuccessMsg
              /\ statusClass' = SuccessClass
              /\ fields' = FormDefaults
         ELSE /\ statusText' = FailureMsg
              /\ statusClass' = ErrorClass
              /\ fields' = fields]_vars

C5_Witness ==
  /\ last.op = "settle"
  /\ last.arg = "http-error"
  /\ statusText = FailureMsg
  /\ statusClass = ErrorClass
  /\ fields # FormDefaults

\* no timer of showStatus is due and still waiting to run
NoTimerDue == IF timers = <<>> THEN TRUE ELSE Head(timers) > now

\* 5000 ms have passed since the last message was shown
LastMessageExpired ==
  shownAt >= 0 /\ now >= shownAt + StatusTimeoutMs /\ NoTimerDue

\* C6: 5000 ms after a status message was shown, with no further event, the
\* status element has neutral styling and no message.
C6_AutoClear ==
  /\ last.op = "timeout" => statusClass = NeutralClass /\ statusText = ""
  /\ LastMessageExpired => statusClass = NeutralClass /\ statusText = ""

\* C6 (amended): 5000 ms after a status message was shown, with no further
\* event, the status element has neutral styling; its text is still the
\* message.
C6_AutoClearStyling ==
  /\ last.op = "timeout" =>
       /\ statusClass = NeutralClass
       /\ statusText \in {ValidationMsg, SuccessMsg, FailureMsg}
  /\ LastMessageExpired =>
       /\ statusClass = NeutralClass
       /\ statusText \in {ValidationMsg, SuccessMsg, FailureMsg}

C6_Witness ==
  /\ LastMessageExpired
  /\ now = shownAt + StatusTimeoutMs
  /\ last.op = "timeout"
  /\ statusClass = NeutralClass
  /\ statusText = SuccessMsg

\* C7: on a submit event whose validation fails the error message is shown,
\* no request is issued and the fields are unchanged.
C7_InvalidSubmit ==
  [][SubmitStep /\ last'.arg = "false" =>
       /\ statusText' = ValidationMsg
       /\ statusClass' = ErrorClass
       /\ issued' = issued
       /\ inflight' = inflight
       /\ fields' = fields]_vars

C7_Witness ==
  /\ last.op = "submit"
  /\ last.arg = "false"
  /\ statusText = ValidationMsg
  /\ statusClass = ErrorClass
  /\ fields # FormDefaults
  /\ issued = 0

\* C8: every submit that passes validation issues exactly one POST, also
\* while an earlier request is in flight, and a settled request is never
\* sent again: the number of requests issued is the number of submits that
\* passed validation.
C8_OneRequestPerValidSubmit ==
  /\ issued = validSubmits
  /\ Cardinality(inflight) <= issued
  /\ \A r \in inflight : r.id \in 1..issued

C8_Witness ==
  /\ issued = 2
  /\ Cardinality(inflight) = 2
  /\ last.op = "submit"

\* the links whose target section contains the probe scrollY + 100
LinksAtProbe ==
  {i \in LinkIds :
     /\ Len(NavLinks[i]) = 2
     /\ NavLinks[i][2] \in DOMAIN layout
     /\ layout[NavLinks[i][2]].top <= scrollY + 100
     /\ scrollY + 100 < layout[NavLinks[i][2]].top + layout[NavLinks[i][2]].height}

\* C9: after the scroll handler has run for scrollY, a link is active iff
\* its target section exists and contains the probe scrollY + 100, whatever
\* was active before.
C9_ActiveAfterScroll ==
  (last.op = "scroll" /\ page = "ready") => active = LinksAtProbe

C9_Witness ==
  /\ last.op = "scroll"
  /\ page = "ready"
  /\ scrollY = 299
  /\ active = {1, 2, 4}

\* the href of link i selects an element of the document
HasTarget(i) == Len(NavLinks[i]) = 2 /\ NavLinks[i][2] \in DOMAIN layout

\* C10: a click on any navigation link leaves that link active and every
\* link with a different href inactive, whatever the scroll position.
C10_ClickMarksActive ==
  last.op = "navclick" =>
    /\ last.arg \in active
    /\ \A j \in LinkIds : NavLinks[j] # NavLinks[last.arg] => j \notin active

\* C10 (amended): a click on a navigation link whose target element exists
\* leaves that link active and every link with a different href inactive,
\* whatever the scroll position.
C10_ClickMarksActiveIfTarget ==
  (last.op = "navclick" /\ HasTarget(last.arg)) =>
    /\ last.arg \in active
    /\ \A j \in LinkIds : NavLinks[j] # NavLinks[last.arg] => j \notin active

C10_Witness ==
  /\ last.op = "navclick"
  /\ last.arg = 2
  /\ active = {2, 4}
  /\ 1 \in LinksAtProbe

\* C11: animateSkills is invoked exactly once if the skills section was ever
\* reported intersecting and never otherwise (never when the section is
\* absent), so the fill of each skill bar is set at most once.
C11_SkillsOneShot ==
  /\ skillAnimations = IF skillSeen THEN 1 ELSE 0
  /\ \A b \in SkillBars : barFills[b] <= 1
  /\ "skills" \notin present => skillAnimations = 0

C11_Witness ==
  /\ last.op = "bar"
  /\ skillTimers = <<>>
  /\ skillAnimations = 1
  /\ \A b \in SkillBars : barFills[b] = 1
  /\ ~skillObserved

\* two entries of one batch report the skills section intersecting
C11_WitnessBatch ==
  /\ last.op = "skills"
  /\ Len(last.arg) >= 2
  /\ last.arg[1].isIntersecting
  /\ last.arg[2].isIntersecting
  /\ skillAnimations = 1

\* C12: the slide-up animation is assigned to a section exactly once if the
\* section was ever reported intersecting, and never otherwise, also when
\* two intersecting entries for it arrive in one batch.
C12_SectionsOneShot ==
  \A s \in DOMAIN layout :
    sectionAssigned[s] = IF s \in sectionSeen THEN 1 ELSE 0

\* C13: after every handled scroll event the header has the class "scrolled"
\* iff scrollY > 50 (absent at exactly 50), whatever it had before.
C13_HeaderScrolled ==
  (last.op = "scroll" /\ page = "ready") => (headerScrolled <=> scrollY > 50)

\* a scroll event at exactly 50 leaves the header without the class
C13_Witness ==
  /\ last.op = "scroll"
  /\ page = "ready"
  /\ scrollY = 50
  /\ ~headerScrolled
  /\ active # {}

\* C14: toggleMobileMenu flips aria-expanded and the class "mobile-open"; a
\* click on a navigation link leaves the menu collapsed; from a collapsed
\* menu, aria-expanded is true iff the menu has the class.
C14_MobileMenu ==
  /\ (ariaExpanded = "true") <=> mobileOpen
  /\ last.op = "menu" =>
       /\ ariaExpanded = BoolStr(last.arg.ariaExpanded # "true")
       /\ mobileOpen = ~last.arg.mobileOpen
  /\ last.op = "navclick" => ariaExpanded = "false" /\ ~mobileOpen

\* the menu was open and a second toggle closed it
C14_Witness ==
  /\ last.op = "menu"
  /\ last.arg.mobileOpen
  /\ ariaExpanded = "false"
  /\ ~mobileOpen

\* C15: in every state after a page load and any toggle clicks, aria-pressed
\* is true iff the current theme is "dark", and the data-theme attribute
\* equals the in-memory theme.
C15_PressedAndAttribute ==
  page = "ready" =>
    /\ ariaPressed = BoolStr(theme = "dark")
    /\ dataTheme = theme

C15_Witness ==
  /\ page = "ready"
  /\ last.op = "toggle"
  /\ theme = "light"
  /\ ariaPressed = "false"
  /\ dataTheme = "light"

\* C17: one toggle click changes the current theme to the other of "light"
\* and "dark"; two consecutive toggle clicks return the in-memory theme and
\* the data-theme attribute to their value before the first of the two.
C17_ToggleInvolution ==
  last.op = "toggle" =>
    /\ theme \in Themes
    /\ theme # last.arg[Len(last.arg)]
    /\ dataTheme = theme
    /\ Len(last.arg) = 2 => theme = last.arg[1] /\ dataTheme = last.arg[1]

C17_Witness ==
  /\ last.op = "toggle"
  /\ last.arg = <<"dark", "light">>
  /\ theme = "dark"
  /\ dataTheme = "dark"

\* C20: after a reload, under any OS preference, the theme in effect is the
\* theme the user last set by a toggle click.
C20_ChoiceSurvivesReload ==
  (last.op = "load" /\ page = "ready" /\ userChoice # "none") =>
    theme = userChoice /\ dataTheme = userChoice

\* s without its leading and trailing spaces
Stripped(s) ==
  LET solid == {k \in 1..Len(s) : s[k] # " "}
  IN  IF solid = {} THEN <<>>
      ELSE SubSeq(s, CHOOSE k \in solid : \A j \in solid : k <= j,
                     CHOOSE k \in solid : \A j \in solid : k >= j)

AllFilled(f) == \A n \in FieldNames : Stripped(f[n]) # <<>>

\* no whitespace, exactly one "@", at least one "." after it
LooseEmail(e) ==
  /\ \A k \in 1..Len(e) : e[k] # " "
  /\ Cardinality({k \in 1..Len(e) : e[k] = "@"}) = 1
  /\ \E at \in 1..Len(e) : \E dot \in 1..Len(e) :
       e[at] = "@" /\ e[dot] = "." /\ at < dot

\* local@domain.tld: as LooseEmail, with something before the "@", between
\* the "@" and the ".", and after the "."
StrictEmail(e) ==
  /\ \A k \in 1..Len(e) : e[k] # " "
  /\ Cardinality({k \in 1..Len(e) : e[k] = "@"}) = 1
  /\ \E at \in 2..Len(e) : \E dot \in 1..Len(e) - 1 :
       e[at] = "@" /\ e[dot] = "." /\ at + 1 < dot

\* C16: validateForm accepts a form iff all four fields are non-empty after
\* trimming and the trimmed email has no whitespace, exactly one "@" and at
\* least one "." after the "@".
C16_ValidateIffLoose ==
  last.op = "validate" =>
    (last.arg = "true" <=> AllFilled(fields) /\ LooseEmail(Stripped(fields.email)))

\* C16 (amended): validateForm accepts a form iff all four fields are
\* non-empty after trimming and the trimmed email has no whitespace, exactly
\* one "@" with at least one character before it, and after the "@" a "."
\* with at least one character on each side of it.
C16_ValidateIffStrict ==
  last.op = "validate" =>
    (last.arg = "true" <=> AllFilled(fields) /\ StrictEmail(Stripped(fields.email)))

C16_Witness ==
  /\ last.op = "validate"
  /\ last.arg = "true"
  /\ fields.email = <<"a", "@", "a", ".", "a">>
  /\ fields.name = <<"a">>

\* C18: a status message keeps its success or error styling for the full
\* 5000 ms after it was shown, unless a newer message replaces it: the timer
\* of an earlier message never removes the styling of a later one early.
C18_StylingLastsFullTime ==
  (shownAt >= 0 /\ now < shownAt + StatusTimeoutMs) =>
    statusClass \in {ErrorClass, SuccessClass}

\* the message for a way a fetch can settle
OutcomeMsg(outcome) == IF outcome = "ok" THEN SuccessMsg ELSE FailureMsg

\* the request whose fetch settles in this step
Settled == CHOOSE r \in inflight : r \notin inflight'

\* C19: once every response has been handled the status message is the
\* outcome of the most recently submitted request, and the form reset of a
\* success response clears only the values submitted with that request,
\* never values entered after that submit.
C19_LatestRequestWins ==
  /\ [](last.op = "settle" /\ inflight = {} /\ latestOutcome # "none"
          => statusText = OutcomeMsg(latestOutcome))
  /\ [][SettleStep /\ last'.arg = "ok" /\ fields # Settled.data
          => fields' = fields]_vars

====
